---- MODULE Spec2Model ----
(***************************************************************************)
(* A model of solution.py, the constraint-propagation / depth-first search *)
(* Sudoku solver.  Candidate strings are sequences of one-character       *)
(* strings over "123456789"; a grid (a Python dict) is a function from    *)
(* box names ("A1" .. "I9") to candidate strings.  Dicts live in a heap   *)
(* of objects addressed by references, because reduce_puzzle and the      *)
(* propagation rules mutate the dict they are handed in place.            *)
(***************************************************************************)
EXTENDS Integers, Sequences, FiniteSets, TLC

Range(s) == {s[i] : i \in 1..Len(s)}

\* ------------------------------------------------------------------------
\* Topology (module level constants of solution.py)
\* ------------------------------------------------------------------------
ROWS == <<"A", "B", "C", "D", "E", "F", "G", "H", "I">>

COLS == <<"1", "2", "3", "4", "5", "6", "7", "8", "9">>

\* cross(row_names, col_names): row-major list of row + col
cross(row_names, col_names) ==
    [i \in 1..(Len(row_names) * Len(col_names)) |->
        row_names[((i - 1) \div Len(col_names)) + 1]
            \o col_names[((i - 1) % Len(col_names)) + 1]]

BOXES == cross(ROWS, COLS)

BoxSet == Range(BOXES)

ROW_UNITS == [r \in 1..Len(ROWS) |-> cross(<<ROWS[r]>>, COLS)]

COL_UNITS == [c \in 1..Len(COLS) |-> cross(ROWS, <<COLS[c]>>)]

\* ["ABC", "DEF", "GHI"] and ["123", "456", "789"]
ROW_BANDS == << <<"A", "B", "C">>, <<"D", "E", "F">>, <<"G", "H", "I">> >>

COL_BANDS == << <<"1", "2", "3">>, <<"4", "5", "6">>, <<"7", "8", "9">> >>

\* [cross(rows, cols) for rows in ROW_BANDS for cols in COL_BANDS]
BOX_UNITS ==
    [i \in 1..(Len(ROW_BANDS) * Len(COL_BANDS)) |->
        cross(ROW_BANDS[((i - 1) \div Len(COL_BANDS)) + 1],
              COL_BANDS[((i - 1) % Len(COL_BANDS)) + 1])]

UNIT_LIST == ROW_UNITS \o COL_UNITS \o BOX_UNITS

UNITS == [box \in BoxSet |-> SelectSeq(UNIT_LIST, LAMBDA unit : box \in Range(unit))]

\* peers through the rows and columns only, the 3x3 boxes forgotten
PEERS_rows_cols ==
    [box \in BoxSet |->
        (UNION {Range(unit) : unit \in {u \in Range(ROW_UNITS \o COL_UNITS) : box \in Range(u)}})
            \ {box}]

PEERS == [box \in BoxSet |->
            (UNION {Range(UNITS[box][k]) : k \in 1..Len(UNITS[box])}) \ {box}]

\* ------------------------------------------------------------------------
\* Python string helpers
\* ------------------------------------------------------------------------
\* "123456789"
ALL_DIGITS == COLS

\* digit in value
In(digit, value) == \E i \in 1..Len(value) : value[i] = digit

\* value.replace(old, "") for a string old of length 0 or 1
replace(value, old) ==
    IF Len(old) = 0 THEN value
    ELSE SelectSeq(value, LAMBDA ch : ch # old[1])

\* position of a digit character in "123456789"
DigitIndex(ch) == CHOOSE i \in 1..Len(COLS) : COLS[i] = ch

\* position of a box in BOXES (dict insertion order)
BoxIndex(box) == CHOOSE i \in 1..Len(BOXES) : BOXES[i] = box

\* ------------------------------------------------------------------------
\* Iteration order of Python sets.  PEERS[box] and all_naked_twins are sets
\* of strings; the order in which a for loop visits them depends on the
\* per-process string hash.  The model lets the process run with one of
\* two orders: ascending or descending.
\* ------------------------------------------------------------------------
HashOrders == {"asc", "desc"}

Reverse(s) == [i \in 1..Len(s) |-> s[Len(s) + 1 - i]]

PEER_ITER ==
    [ord \in HashOrders |->
        [box \in BoxSet |->
            LET asc == SelectSeq(BOXES, LAMBDA b : b \in PEERS[box])
            IN  IF ord = "asc" THEN asc ELSE Reverse(asc)]]

\* sort key of a two-digit candidate string
PairKey(value) == DigitIndex(value[1]) * (Len(COLS) + 1) + DigitIndex(value[2])

RECURSIVE SortPairs(_)
SortPairs(S) ==
    IF S = {} THEN <<>>
    ELSE LET m == CHOOSE x \in S : \A y \in S : PairKey(x) <= PairKey(y)
         IN  <<m>> \o SortPairs(S \ {m})

\* the order in which "for naked_twin in all_naked_twins" visits the set
TwinIter(S, ord) == IF ord = "asc" THEN SortPairs(S) ELSE Reverse(SortPairs(S))

\* "".join(strings)
RECURSIVE Join(_)
Join(strs) == IF Len(strs) = 0 THEN <<>> ELSE Head(strs) \o Join(Tail(strs))

\* ------------------------------------------------------------------------
\* assign_value and the three propagation rules.  Each takes and returns
\* st = [values |-> the dict, ASSIGNMENTS |-> the global log].
\* ------------------------------------------------------------------------
\* Python evaluates an argument before the call it is passed to.  Evaluated(st)
\* is TRUE, and st has been computed once it is known to be.
Evaluated(st) == Len(st.ASSIGNMENTS) >= 0

assign_value(st, box, value) ==
    IF st.values[box] = value THEN st
    ELSE LET updated == [st.values EXCEPT ![box] = value]
         IN  [values |-> updated,
              ASSIGNMENTS |-> IF Len(value) = 1
                              THEN Append(st.ASSIGNMENTS, updated)
                              ELSE st.ASSIGNMENTS]

\* The loops over the 81 boxes and the 27 units are folded over the positions
\* lo..hi of the list, split in halves only to keep the depth of evaluation
\* logarithmic: the items are still visited in order lo, lo + 1, .., hi.

\* for peer in PEERS[box]: assign_value(values, peer, values[peer].replace(values[box], ""))
\* the state after the first j peers
RECURSIVE eliminate_peers(_, _, _, _)
eliminate_peers(st, box, peers, j) ==
    IF j = 0 THEN st
    ELSE LET prev == eliminate_peers(st, box, peers, j - 1)
         IN  assign_value(prev, peers[j],
                          replace(prev.values[peers[j]], prev.values[box]))

\* for box in single_values: the boxes at positions lo..hi
RECURSIVE eliminate_boxes(_, _, _, _, _)
eliminate_boxes(st, single_values, lo, hi, ord) ==
    IF lo > hi THEN st
    ELSE IF lo = hi
    THEN eliminate_peers(st, single_values[lo], PEER_ITER[ord][single_values[lo]],
                         Len(PEER_ITER[ord][single_values[lo]]))
    ELSE LET mid == (lo + hi) \div 2
             left == eliminate_boxes(st, single_values, lo, mid, ord)
         IN  IF Evaluated(left)
             THEN eliminate_boxes(left, single_values, mid + 1, hi, ord)
             ELSE left

eliminate(st, ord) ==
    LET single_values == SelectSeq(BOXES, LAMBDA box : Len(st.values[box]) = 1)
    IN  eliminate_boxes(st, single_values, 1, Len(single_values), ord)

\* a digit is assigned to its first place however many places it has
only_choice_digit_any(st, unit, digit) ==
    LET dplaces == SelectSeq(unit, LAMBDA box : In(digit, st.values[box]))
    IN  IF Len(dplaces) >= 1 THEN assign_value(st, dplaces[1], <<digit>>) ELSE st

\* dplaces = [box for box in unit if digit in values[box]]
\* if len(dplaces) == 1: values = assign_value(values, dplaces[0], digit)
only_choice_digit(st, unit, digit) ==
    LET dplaces == SelectSeq(unit, LAMBDA box : In(digit, st.values[box]))
    IN  IF Len(dplaces) = 1 THEN assign_value(st, dplaces[1], <<digit>>) ELSE st

\* for digit in "123456789": the state after the first d digits
RECURSIVE only_choice_digits(_, _, _)
only_choice_digits(st, unit, d) ==
    IF d = 0 THEN st
    ELSE only_choice_digit(only_choice_digits(st, unit, d - 1), unit, ALL_DIGITS[d])

\* for unit in UNIT_LIST: the units at positions lo..hi
RECURSIVE only_choice_units(_, _, _)
only_choice_units(st, lo, hi) ==
    IF lo > hi THEN st
    ELSE IF lo = hi THEN only_choice_digits(st, UNIT_LIST[lo], Len(ALL_DIGITS))
    ELSE LET mid == (lo + hi) \div 2
             left == only_choice_units(st, lo, mid)
         IN  IF Evaluated(left) THEN only_choice_units(left, mid + 1, hi) ELSE left

only_choice(st) == only_choice_units(st, 1, Len(UNIT_LIST))

\* all_naked_twins of one unit: the two-digit values that auv.count(value) == 2
all_naked_twins(values, unit) ==
    {values[unit[i]] : i \in {k \in 1..Len(unit) :
        /\ Len(values[unit[k]]) = 2
        /\ Cardinality({m \in 1..Len(unit) : values[unit[m]] = values[unit[k]]}) = 2}}

\* for digit in digits_to_remove: assign_value(values, box, values[box].replace(digit, ""))
\* the state after the first d digits
RECURSIVE naked_twins_digits(_, _, _, _)
naked_twins_digits(st, box, digits_to_remove, d) ==
    IF d = 0 THEN st
    ELSE LET prev == naked_twins_digits(st, box, digits_to_remove, d - 1)
         IN  assign_value(prev, box, replace(prev.values[box], <<digits_to_remove[d]>>))

\* the twin digits are assigned to the other boxes instead of removed
naked_twins_box_assigns(st, box, twins, digits_to_remove) ==
    IF st.values[box] \notin twins /\ Len(digits_to_remove) > 0
    THEN assign_value(st, box, digits_to_remove)
    ELSE st

\* if values[box] not in all_naked_twins: for digit in digits_to_remove: ...
naked_twins_box(st, box, twins, digits_to_remove) ==
    IF st.values[box] \notin twins
    THEN naked_twins_digits(st, box, digits_to_remove, Len(digits_to_remove))
    ELSE st

\* for box in unit: the state after the first b boxes
RECURSIVE naked_twins_boxes(_, _, _, _, _)
naked_twins_boxes(st, unit, twins, digits_to_remove, b) ==
    IF b = 0 THEN st
    ELSE naked_twins_box(naked_twins_boxes(st, unit, twins, digits_to_remove, b - 1),
                         unit[b], twins, digits_to_remove)

\* the body of "for unit in UNIT_LIST" for one unit
naked_twins_unit(st, unit, ord) ==
    LET twins == all_naked_twins(st.values, unit)
        digits_to_remove == Join(TwinIter(twins, ord))
    IN  naked_twins_boxes(st, unit, twins, digits_to_remove, Len(unit))

\* for unit in UNIT_LIST: the units at positions lo..hi
RECURSIVE naked_twins_units(_, _, _, _)
naked_twins_units(st, lo, hi, ord) ==
    IF lo > hi THEN st
    ELSE IF lo = hi THEN naked_twins_unit(st, UNIT_LIST[lo], ord)
    ELSE LET mid == (lo + hi) \div 2
             left == naked_twins_units(st, lo, mid, ord)
         IN  IF Evaluated(left) THEN naked_twins_units(left, mid + 1, hi, ord) ELSE left

naked_twins(st, ord) == naked_twins_units(st, 1, Len(UNIT_LIST), ord)

\* the characters of the grid zipped with the boxes in column-major order
grid_values_transposed(grid) ==
    LET transposed(box) == ((BoxIndex(box) - 1) % Len(COLS)) * Len(ROWS)
                               + ((BoxIndex(box) - 1) \div Len(COLS)) + 1
    IN  [box \in BoxSet |->
            IF grid[transposed(box)] # "." THEN <<grid[transposed(box)]>> ELSE ALL_DIGITS]

\* grid_values(grid): "." becomes "123456789", a digit becomes itself
grid_values(grid) ==
    [box \in BoxSet |->
        IF grid[BoxIndex(box)] # "." THEN <<grid[BoxIndex(box)]>> ELSE ALL_DIGITS]

\* ------------------------------------------------------------------------
\* Python values handed between search, reduce_puzzle and solve
\* ------------------------------------------------------------------------
PyFalse == [tag |-> "False", ref |-> 0]

PyNone == [tag |-> "None", ref |-> 0]

PyDict(r) == [tag |-> "dict", ref |-> r]

\* truthiness as tested by "if not values" / "if values_copy and ..."
Truthy(v) == v.tag = "dict"

\* all(len(value) == 1 for value in values.values())
all_single(values) == \A box \in BoxSet : Len(values[box]) = 1

\* any(len(values[box]) == 0 for box in BOXES)
any_empty(values) == \E box \in BoxSet : Len(values[box]) = 0

\* key=lambda t: len(t[1]) if len(t[1]) > 1 else 10
min_key(value) == IF Len(value) > 1 THEN Len(value) ELSE Len(ALL_DIGITS) + 1

\* the last item, in dict order, of least key
best_key_of_last(values) ==
    BOXES[CHOOSE i \in 1..Len(BOXES) :
            /\ \A j \in 1..Len(BOXES) : min_key(values[BOXES[i]]) <= min_key(values[BOXES[j]])
            /\ \A j \in (i + 1)..Len(BOXES) : min_key(values[BOXES[j]]) > min_key(values[BOXES[i]])]

\* min(values.items(), key=...): the first item, in dict order, of least key
best_key_of(values) ==
    BOXES[CHOOSE i \in 1..Len(BOXES) :
            /\ \A j \in 1..Len(BOXES) : min_key(values[BOXES[i]]) <= min_key(values[BOXES[j]])
            /\ \A j \in 1..(i - 1) : min_key(values[BOXES[j]]) > min_key(values[BOXES[i]])]

\* no copy: the same dict object under a second name
dict_copy_alias(h, r) == [heap |-> h, ref |-> r]

\* values.copy(): a new dict object holding the same strings
dict_copy(h, r) == [heap |-> Append(h, h[r]), ref |-> Len(h) + 1]

\* ------------------------------------------------------------------------
\* Inputs
\* ------------------------------------------------------------------------
\* the example grid of solve's docstring
EXAMPLE_GRID ==
    << "2",".",".",".",".",".",".",".",".",
       ".",".",".",".",".","6","2",".",".",
       ".",".","1",".",".",".",".","7",".",
       ".",".","6",".",".","8",".",".",".",
       "3",".",".",".","9",".",".",".","7",
       ".",".",".","6",".",".","4",".",".",
       ".","4",".",".",".",".","8",".",".",
       ".",".","5","2",".",".",".",".",".",
       ".",".",".",".",".",".",".",".","3" >>

BLANK_GRID == [i \in 1..Len(BOXES) |-> "."]

\* further givens a caller may add to a grid: <<box, digit>>
EXTRA_GIVENS == << <<"A8", "3">>, <<"D7", "9">>, <<"A2", "3">>, <<"I2", "8">> >>

\* the most further givens added to one input
MaxExtras == 2

\* base with the givens of EXTRA_GIVENS at the positions in chosen
WithGivens(base, chosen) ==
    [i \in 1..Len(BOXES) |->
        IF \E e \in chosen : EXTRA_GIVENS[e][1] = BOXES[i]
        THEN EXTRA_GIVENS[CHOOSE e \in chosen : EXTRA_GIVENS[e][1] = BOXES[i]][2]
        ELSE base[i]]

\* the all-blank grid, and the example grid with up to MaxExtras further givens
Inputs ==
    {BLANK_GRID} \cup
    {WithGivens(EXAMPLE_GRID, chosen) :
        chosen \in {S \in SUBSET (1..Len(EXTRA_GIVENS)) : Cardinality(S) <= MaxExtras}}

\* candidate strings a caller of naked_twins puts on the first boxes of row A
NT_VALUES == << <<"1", "2">>, <<"2", "3">>, <<"1", "2", "3">>, <<"2", "3", "4", "5">> >>

\* the number of boxes of row A the caller sets
NTBoxes == 4

\* the grids handed to naked_twins: every other box holds "123456789"
NTInputs ==
    {[box \in BoxSet |->
         IF BoxIndex(box) <= NTBoxes THEN NT_VALUES[pick[BoxIndex(box)]] ELSE ALL_DIGITS] :
     pick \in [1..NTBoxes -> 1..Len(NT_VALUES)]}

\* ------------------------------------------------------------------------
\* State
\* ------------------------------------------------------------------------
VARIABLES
    grid,             \* the argument of solve
    hashOrder,        \* the iteration order of sets in this process
    pc,               \* the statement the program is at
    heap,             \* the dict objects: heap[r] is the dict with reference r
    stack,            \* the active calls of search, the root call first
    previous_values,  \* reduce_puzzle's local previous_values
    ASSIGNMENTS,      \* the global list ASSIGNMENTS
    ret,              \* the value the last finished call of search returned
    result            \* the value solve returned

vars == <<grid, hashOrder, pc, heap, stack, previous_values, ASSIGNMENTS, ret, result>>

NoGrid == [box \in BoxSet |-> <<>>]

\* a call of search(values): dict is the object passed in, values the local
\* variable after line 156, idx the number of choices already taken from
\* best_choices.  start and reduced are history fields: the dict as it was
\* when the call began and as it was when reduce_puzzle returned it; tried
\* is the history of the digits best_key was forced to.
NewFrame(r, h) ==
    [dict |-> r, values |-> PyNone, best_key |-> "", best_choices |-> <<>>,
     idx |-> 0, start |-> h[r], reduced |-> NoGrid, tried |-> <<>>]

Top == stack[Len(stack)]

SetTop(f) == [stack EXCEPT ![Len(stack)] = f]

\* the objects still referenced by a frame or by the value v
RECURSIVE MaxRef(_, _)
MaxRef(frames, v) ==
    IF Len(frames) = 0 THEN v.ref
    ELSE LET m == MaxRef(Tail(frames), v)
         IN  IF Head(frames).dict > m THEN Head(frames).dict ELSE m

Collect(h, frames, v) == SubSeq(h, 1, MaxRef(frames, v))

Init ==
    /\ grid \in Inputs
    /\ hashOrder \in HashOrders
    /\ pc = "solve"
    /\ heap = <<>>
    /\ stack = <<>>
    /\ previous_values = NoGrid
    /\ ASSIGNMENTS = <<>>
    /\ ret = PyNone
    /\ result = [tag |-> "pending", ref |-> 0]

\* solve, lines 184-185: values = grid_values(grid); search(values)
GridValues ==
    /\ pc = "solve"
    /\ heap' = <<grid_values(grid)>>
    /\ stack' = <<NewFrame(1, heap')>>
    /\ pc' = "reduce"
    /\ UNCHANGED <<grid, hashOrder, previous_values, ASSIGNMENTS, ret, result>>

\* the rule applied in place to the dict of the running call
Apply(st, next) ==
    /\ heap' = [heap EXCEPT ![Top.dict] = st.values]
    /\ ASSIGNMENTS' = st.ASSIGNMENTS
    /\ pc' = next

Current == [values |-> heap[Top.dict], ASSIGNMENTS |-> ASSIGNMENTS]

\* reduce_puzzle, lines 137-138
Eliminate ==
    /\ pc = "reduce"
    /\ previous_values' = heap[Top.dict]
    /\ Apply(eliminate(Current, hashOrder), "only_choice")
    /\ UNCHANGED <<grid, hashOrder, stack, ret, result>>

\* reduce_puzzle, line 139
OnlyChoice ==
    /\ pc = "only_choice"
    /\ Apply(only_choice(Current), "naked_twins")
    /\ UNCHANGED <<grid, hashOrder, stack, previous_values, ret, result>>

\* reduce_puzzle, line 140
NakedTwins ==
    /\ pc = "naked_twins"
    /\ Apply(naked_twins(Current, hashOrder), "reduce_test")
    /\ UNCHANGED <<grid, hashOrder, stack, previous_values, ret, result>>

\* the loop of reduce_puzzle never told to stop
able_to_reduce_always(values, previous) == TRUE

\* reduce_puzzle, line 142: able_to_reduce = values != previous_values
able_to_reduce(values, previous) == values # previous

\* reduce_puzzle, lines 142-145: an empty box, return False
ReduceFail ==
    /\ pc = "reduce_test"
    /\ any_empty(heap[Top.dict])
    /\ stack' = SetTop([Top EXCEPT !.values = PyFalse])
    /\ pc' = "search"
    /\ UNCHANGED <<grid, hashOrder, heap, previous_values, ASSIGNMENTS, ret, result>>

\* reduce_puzzle, lines 142-144 and 136: the values changed, go round again
ReduceAgain ==
    /\ pc = "reduce_test"
    /\ ~any_empty(heap[Top.dict])
    /\ able_to_reduce(heap[Top.dict], previous_values)
    /\ pc' = "reduce"
    /\ UNCHANGED <<grid, hashOrder, heap, stack, previous_values, ASSIGNMENTS, ret, result>>

\* reduce_puzzle, lines 142-146: nothing changed, return values
ReduceDone ==
    /\ pc = "reduce_test"
    /\ ~any_empty(heap[Top.dict])
    /\ ~able_to_reduce(heap[Top.dict], previous_values)
    /\ stack' = SetTop([Top EXCEPT !.values = PyDict(Top.dict)])
    /\ pc' = "search"
    /\ UNCHANGED <<grid, hashOrder, heap, previous_values, ASSIGNMENTS, ret, result>>

\* search, lines 159-160
SearchFail ==
    /\ pc = "search"
    /\ ~Truthy(Top.values)
    /\ ret' = PyFalse
    /\ pc' = "return"
    /\ UNCHANGED <<grid, hashOrder, heap, stack, previous_values, ASSIGNMENTS, result>>

\* search, lines 162-163
SearchSolved ==
    /\ pc = "search"
    /\ Truthy(Top.values)
    /\ all_single(heap[Top.values.ref])
    /\ ret' = Top.values
    /\ pc' = "return"
    /\ UNCHANGED <<grid, hashOrder, heap, stack, previous_values, ASSIGNMENTS, result>>

\* search, line 166
SearchSelect ==
    /\ pc = "search"
    /\ Truthy(Top.values)
    /\ ~all_single(heap[Top.values.ref])
    /\ LET values == heap[Top.values.ref]
           best_key == best_key_of(values)
       IN  stack' = SetTop([Top EXCEPT !.best_key = best_key,
                                       !.best_choices = values[best_key],
                                       !.idx = 0,
                                       !.reduced = values])
    /\ pc' = "branch"
    /\ UNCHANGED <<grid, hashOrder, heap, previous_values, ASSIGNMENTS, ret, result>>

\* search, lines 168-171: the next choice, a copy with best_key forced, the call
BranchNext ==
    /\ pc = "branch"
    /\ Top.idx < Len(Top.best_choices)
    /\ LET choice == Top.best_choices[Top.idx + 1]
           made == dict_copy(heap, Top.values.ref)
           forced == [made.heap EXCEPT ![made.ref][Top.best_key] = <<choice>>]
       IN  /\ heap' = forced
           /\ stack' = Append(SetTop([Top EXCEPT !.idx = Top.idx + 1,
                                                 !.tried = Append(Top.tried, choice)]),
                               NewFrame(made.ref, forced))
    /\ pc' = "reduce"
    /\ UNCHANGED <<grid, hashOrder, previous_values, ASSIGNMENTS, ret, result>>

\* search, line 168 left with no choice returning: the function ends, None
BranchExhausted ==
    /\ pc = "branch"
    /\ Top.idx = Len(Top.best_choices)
    /\ ret' = PyNone
    /\ pc' = "return"
    /\ UNCHANGED <<grid, hashOrder, heap, stack, previous_values, ASSIGNMENTS, result>>

\* search, lines 171-173: the call returned a fully resolved dict, return it
ChildSolved ==
    /\ pc = "return"
    /\ Len(stack) > 1
    /\ Truthy(ret) /\ all_single(heap[ret.ref])
    /\ stack' = SubSeq(stack, 1, Len(stack) - 1)
    /\ heap' = Collect(heap, stack', ret)
    /\ UNCHANGED <<grid, hashOrder, pc, previous_values, ASSIGNMENTS, ret, result>>

\* search, lines 171-172 and 168: the call failed, on to the next choice
ChildFailed ==
    /\ pc = "return"
    /\ Len(stack) > 1
    /\ ~(Truthy(ret) /\ all_single(heap[ret.ref]))
    /\ stack' = SubSeq(stack, 1, Len(stack) - 1)
    /\ heap' = Collect(heap, stack', PyNone)
    /\ pc' = "branch"
    /\ UNCHANGED <<grid, hashOrder, previous_values, ASSIGNMENTS, ret, result>>

\* solve, lines 185-186: the root call of search returned
SolveReturn ==
    /\ pc = "return"
    /\ Len(stack) = 1
    /\ result' = ret
    /\ stack' = <<>>
    /\ heap' = Collect(heap, stack', ret)
    /\ pc' = "done"
    /\ UNCHANGED <<grid, hashOrder, previous_values, ASSIGNMENTS, ret>>

Next ==
    \/ GridValues
    \/ Eliminate
    \/ OnlyChoice
    \/ NakedTwins
    \/ ReduceFail
    \/ ReduceAgain
    \/ ReduceDone
    \/ SearchFail
    \/ SearchSolved
    \/ SearchSelect
    \/ BranchNext
    \/ BranchExhausted
    \/ ChildSolved
    \/ ChildFailed
    \/ SolveReturn

Spec == Init /\ [][Next]_vars

\* ------------------------------------------------------------------------
\* naked_twins called on its own, as a unit test calls it: heap[1] is the
\* dict passed and changed in place, heap[2] a copy the caller keeps.
\* ------------------------------------------------------------------------
InitNT ==
    /\ grid = BLANK_GRID
    /\ hashOrder \in HashOrders
    /\ pc = "naked_twins_call"
    /\ \E values \in NTInputs : heap = <<values, values>>
    /\ stack = <<>>
    /\ previous_values = NoGrid
    /\ ASSIGNMENTS = <<>>
    /\ ret = PyNone
    /\ result = [tag |-> "pending", ref |-> 0]

\* naked_twins(values)
CallNakedTwins ==
    /\ pc = "naked_twins_call"
    /\ LET st == naked_twins([values |-> heap[1], ASSIGNMENTS |-> ASSIGNMENTS], hashOrder)
       IN  /\ heap' = [heap EXCEPT ![1] = st.values]
           /\ ASSIGNMENTS' = st.ASSIGNMENTS
    /\ ret' = PyDict(1)
    /\ pc' = "naked_twins_returned"
    /\ UNCHANGED <<grid, hashOrder, stack, previous_values, result>>

NextNT == CallNakedTwins

SpecNT == InitNT /\ [][NextNT]_vars

\* ------------------------------------------------------------------------
\* Properties
\* ------------------------------------------------------------------------
Digits == Range(ALL_DIGITS)

\* every box holds one digit and every unit holds every digit exactly once
SolvedGrid(values) ==
    /\ \A box \in BoxSet : Len(values[box]) = 1 /\ values[box][1] \in Digits
    /\ \A u \in 1..Len(UNIT_LIST) : \A digit \in Digits :
          Cardinality({i \in 1..Len(UNIT_LIST[u]) :
                          values[UNIT_LIST[u][i]] = <<digit>>}) = 1

\* the boxes the input gives a digit for hold that digit
KeepsGivens(values, g) ==
    \A i \in 1..Len(BOXES) : g[i] # "." => values[BOXES[i]] = <<g[i]>>

Returned == pc = "done"

\* C1: whenever solve returns a grid, each of the 81 boxes holds exactly one
\* digit and each row, column and 3x3 box holds every digit 1..9 exactly once.
C1_ReturnedGridIsValid ==
    (Returned /\ Truthy(result)) => SolvedGrid(heap[result.ref])

\* solve returned a grid for an input with blank boxes
C1_Witness ==
    /\ Returned /\ Truthy(result)
    /\ \E i \in 1..Len(BOXES) : grid[i] = "."

\* three complete grids, used only as candidates for "a completion exists"
COMPLETE_1 ==
    << "1","2","3","4","5","6","7","8","9",
       "4","5","6","7","8","9","1","2","3",
       "7","8","9","1","2","3","4","5","6",
       "2","3","1","6","7","4","8","9","5",
       "8","7","5","9","1","2","3","6","4",
       "6","9","4","5","3","8","2","1","7",
       "3","1","7","2","6","5","9","4","8",
       "5","4","2","8","9","7","6","3","1",
       "9","6","8","3","4","1","5","7","2" >>

COMPLETE_2 ==
    << "2","3","9","8","7","4","1","5","6",
       "7","5","4","3","1","6","2","9","8",
       "6","8","1","9","5","2","3","7","4",
       "4","7","6","1","2","8","5","3","9",
       "3","1","2","4","9","5","6","8","7",
       "5","9","8","6","3","7","4","1","2",
       "1","4","3","7","6","9","8","2","5",
       "9","6","5","2","8","3","7","4","1",
       "8","2","7","5","4","1","9","6","3" >>

COMPLETE_3 ==
    << "2","3","4","8","5","7","1","9","6",
       "5","9","7","1","3","6","2","8","4",
       "8","6","1","9","2","4","3","7","5",
       "4","5","6","3","7","8","9","2","1",
       "3","1","8","4","9","2","5","6","7",
       "7","2","9","6","1","5","4","3","8",
       "9","4","3","7","6","1","8","5","2",
       "1","7","5","2","8","3","6","4","9",
       "6","8","2","5","4","9","7","1","3" >>

AsValues(complete) == [box \in BoxSet |-> <<complete[BoxIndex(box)]>>]

\* values is a valid completion of the input g
IsCompletion(values, g) == SolvedGrid(values) /\ KeepsGivens(values, g)

\* g has a completion among the candidates
HasCompletion(g) ==
    \E complete \in {COMPLETE_1, COMPLETE_2, COMPLETE_3} :
        IsCompletion(AsValues(complete), g)

\* two boxes of one unit are given the same digit
GivensViolateUnit(g) ==
    \E u \in 1..Len(UNIT_LIST) : \E i, j \in 1..Len(UNIT_LIST[u]) :
        /\ i # j
        /\ g[BoxIndex(UNIT_LIST[u][i])] # "."
        /\ g[BoxIndex(UNIT_LIST[u][i])] = g[BoxIndex(UNIT_LIST[u][j])]

\* C2: solve returns a solved grid for every input that has a completion, a
\* grid it returns is a completion of the input, and it returns the
\* unsolvable (falsy) result for every input whose givens violate a unit.
C2_SolvedIffCompletion ==
    Returned =>
        /\ HasCompletion(grid) => Truthy(result)
        /\ Truthy(result) => IsCompletion(heap[result.ref], grid)
        /\ GivensViolateUnit(grid) => ~Truthy(result)

\* solve returned unsolvable for givens that put one digit twice in a unit
C2_Witness == Returned /\ GivensViolateUnit(grid) /\ ~Truthy(result)

\* C3: in a grid solve returns, every box given as a digit holds that digit.
C3_GivensKept ==
    (Returned /\ Truthy(result)) => KeepsGivens(heap[result.ref], grid)

\* solve returned a grid for an input with givens
C3_Witness ==
    /\ Returned /\ Truthy(result)
    /\ \E i \in 1..Len(BOXES) : grid[i] # "."

\* C4: failure is one value, False: a call of search that fails returns False
\* whether reduce_puzzle hit a contradiction or every choice failed, and so
\* does solve.
C4_FailureIsFalse ==
    /\ (pc = "return" /\ ~Truthy(ret)) => ret = PyFalse
    /\ (Returned /\ ~Truthy(result)) => result = PyFalse

\* the number of boxes with more than one candidate
Unresolved(values) == Cardinality({box \in BoxSet : Len(values[box]) > 1})

Branching(f) == f.best_key # ""

\* a call that branches has fewer unresolved boxes than the call that made it,
\* and the calls below the root are no more than the blanks of the input
C5_Depth ==
    /\ \A k \in 2..Len(stack) :
          Branching(stack[k]) =>
              Unresolved(stack[k].reduced) < Unresolved(stack[k - 1].reduced)
    /\ Len(stack) > 0 => Len(stack) - 1 <= Unresolved(grid_values(grid))

\* the total number of candidates of a grid
Size(values) ==
    Cardinality(UNION {{<<box, i>> : i \in 1..Len(values[box])} : box \in BoxSet})

\* the choices a branching call has not taken yet
Remaining(f) == Len(f.best_choices) - f.idx

\* what is left to do in the call on top of the stack
TopRank ==
    CASE pc = "reduce"      -> 30 + 4 * Size(heap[Top.dict]) + 3
      [] pc = "only_choice" -> 30 + 4 * Size(previous_values) + 2
      [] pc = "naked_twins" -> 30 + 4 * Size(previous_values) + 1
      [] pc = "reduce_test" -> 30 + 4 * Size(previous_values)
      [] pc = "search"      -> 25
      [] pc = "branch"      -> 4 + 2 * Remaining(Top)
      [] pc = "return"      -> 1

\* what is left to do in a branching call whose choice is being searched
BelowRank(f) == 4 + 2 * Remaining(f)

\* The variant of the run is the sequence with BelowRank of every call below
\* the top of the stack, the root call first, and TopRank last, ordered
\* lexicographically with a proper prefix coming first; the order is
\* well-founded because the stack is bounded (C5_Depth).  RankDecreases is
\* that this step takes the variant down: the calls below the one it changes
\* are unchanged, and
\*   - a step inside the top call takes TopRank down,
\*   - a call of search takes the caller's number down,
\*   - a return leaves the caller's number no higher, the sequence shorter.
RankDecreases ==
    \/ pc = "solve"
    \/ pc' = "done" /\ stack' = <<>>
    \/ /\ Len(stack') = Len(stack) /\ Len(stack) >= 1
       /\ \A k \in 1..(Len(stack) - 1) : stack'[k] = stack[k]
       /\ TopRank' < TopRank
    \/ /\ Len(stack') = Len(stack) + 1 /\ Len(stack) >= 1
       /\ \A k \in 1..(Len(stack) - 1) : stack'[k] = stack[k]
       /\ BelowRank(stack'[Len(stack)]) < TopRank
    \/ /\ Len(stack') = Len(stack) - 1 /\ Len(stack') >= 1
       /\ \A k \in 1..(Len(stack') - 1) : stack'[k] = stack[k]
       /\ TopRank' <= BelowRank(stack[Len(stack')])

\* the program is never stuck before solve returns
C5_NotStuck ==
    \/ Returned
    \/ pc \in {"solve", "reduce", "only_choice", "naked_twins", "reduce_test", "search"}
          /\ (pc # "solve" => Len(stack) >= 1)
    \/ pc = "branch" /\ Len(stack) >= 1 /\ Top.idx <= Len(Top.best_choices)
    \/ pc = "return" /\ Len(stack) >= 1

\* C5: solve terminates: every step of the run, a round of reduce_puzzle
\* included, takes the variant down in a well-founded order and the run is
\* not stuck before solve returns; along every recursion path each call
\* branches with strictly fewer unresolved boxes than its parent, so the depth
\* of the recursion is at most the number of unresolved boxes of the input.
C5_Terminates ==
    /\ [][RankDecreases]_vars
    /\ []C5_Depth
    /\ []C5_NotStuck

\* a call two levels below the root is about to branch
C5_Witness == Len(stack) >= 3 /\ pc = "branch"

\* the two-digit candidate strings that sit on exactly two boxes of a unit
TwinPairs(values, unit) ==
    {p \in {values[unit[i]] : i \in 1..Len(unit)} :
        /\ Len(p) = 2
        /\ Cardinality({i \in 1..Len(unit) : values[unit[i]] = p}) = 2}

\* C6: after one pass of naked_twins, for every unit and every twin pair of
\* the unit, every box of the unit whose candidates are not that twin pair
\* holds neither digit of the pair, also when the unit has several twin pairs.
C6_TwinsEliminated ==
    pc = "naked_twins_returned" =>
        \A u \in 1..Len(UNIT_LIST) : \A p \in TwinPairs(heap[2], UNIT_LIST[u]) :
            \A i \in 1..Len(UNIT_LIST[u]) :
                heap[2][UNIT_LIST[u][i]] # p =>
                    /\ ~In(p[1], heap[1][UNIT_LIST[u][i]])
                    /\ ~In(p[2], heap[1][UNIT_LIST[u][i]])

\* candidate digits in ascending order, none twice
Ascending(value) ==
    \A i \in 1..(Len(value) - 1) : DigitIndex(value[i]) < DigitIndex(value[i + 1])

\* the branching box of a call is the first box, in row-major order, of the
\* fewest candidates among the boxes with more than one; its digits are tried
\* in ascending order, none skipped
C7_Selection ==
    \A k \in 1..Len(stack) :
        LET f == stack[k] IN
        Branching(f) =>
            /\ Len(f.reduced[f.best_key]) > 1
            /\ \A box \in BoxSet :
                  Len(f.reduced[box]) > 1 =>
                      \/ Len(f.reduced[f.best_key]) < Len(f.reduced[box])
                      \/ /\ Len(f.reduced[f.best_key]) = Len(f.reduced[box])
                         /\ BoxIndex(f.best_key) <= BoxIndex(box)
            /\ Ascending(f.reduced[f.best_key])
            /\ f.tried = SubSeq(f.reduced[f.best_key], 1, Len(f.tried))
            /\ k < Len(stack) =>
                  /\ Len(f.tried) >= 1
                  /\ stack[k + 1].start[f.best_key] = <<f.tried[Len(f.tried)]>>

\* a call that gets a fully resolved grid back returns it at once
C7_FirstSolutionReturned ==
    (pc = "return" /\ Truthy(ret) /\ Len(stack) > 1) =>
        /\ ret' = ret
        /\ pc' = "return"
        /\ stack' = SubSeq(stack, 1, Len(stack) - 1)

\* C7: search branches on the first box, in row-major order, of the fewest
\* candidates among the unresolved boxes, tries its digits in ascending order
\* and returns the first fully resolved grid a choice yields without trying
\* a later choice.
C7_BranchOrder == []C7_Selection /\ [][C7_FirstSolutionReturned]_vars

\* a second choice is being searched after the first one failed
C7_Witness ==
    /\ Len(stack) >= 2
    /\ Len(stack[1].tried) >= 2
    /\ pc = "reduce"

\* C8: at a branching call the dict the copies are made from stays as
\* reduce_puzzle left it, whatever the searches of earlier choices did, and
\* each copy starts as that dict with only the branching box forced.
C8_CopyOnBranch ==
    /\ \A k \in 1..(Len(stack) - 1) :
          /\ heap[stack[k].dict] = stack[k].reduced
          /\ \A box \in BoxSet \ {stack[k].best_key} :
                stack[k + 1].start[box] = stack[k].reduced[box]
    /\ (pc = "branch" /\ Len(stack) >= 1) => heap[Top.dict] = Top.reduced

\* a choice failed after its search changed its copy, and the next choice of
\* the same call is about to be copied
C8_Witness ==
    /\ pc = "branch"
    /\ Len(stack) >= 1
    /\ Top.idx >= 1
    /\ Top.idx < Len(Top.best_choices)

\* every candidate of after is a candidate of before, in the same order
Shrinks(after, before) ==
    \A box \in BoxSet :
        after[box] = SelectSeq(before[box], LAMBDA ch : In(ch, after[box]))

RuleStep == pc \in {"reduce", "only_choice", "naked_twins"}

\* C9: eliminate, only_choice and naked_twins leave every box with a subset
\* of the candidates it had, so no rule and no round of reduce_puzzle adds a
\* candidate or makes an empty box non-empty.
C9_Monotone ==
    [][/\ RuleStep => Shrinks(heap'[Top.dict], heap[Top.dict])
       /\ pc' = "reduce_test" => Shrinks(heap'[Top.dict], previous_values')]_vars

\* a round of reduce_puzzle removed candidates
C9_Witness ==
    /\ pc = "reduce_test"
    /\ heap[Top.dict] # previous_values
    /\ Shrinks(heap[Top.dict], previous_values)

\* log is an initial part of longer
IsPrefix(log, longer) ==
    /\ Len(log) <= Len(longer)
    /\ SubSeq(longer, 1, Len(log)) = log

\* C10: entries of ASSIGNMENTS are never removed or altered, and whenever a
\* step (a propagation rule, or search forcing its branching box) changes a
\* box to a single candidate it did not hold, a snapshot of the grid showing
\* that box resolved is appended.
C10_EveryResolutionLogged ==
    [][/\ IsPrefix(ASSIGNMENTS, ASSIGNMENTS')
       /\ (RuleStep \/ (pc = "branch" /\ pc' = "reduce")) =>
             \A box \in BoxSet :
                 LET old == heap[Top.dict][box]
                     new == heap'[stack'[Len(stack')].dict][box]
                 IN  (Len(new) = 1 /\ new # old) =>
                         \E i \in (Len(ASSIGNMENTS) + 1)..Len(ASSIGNMENTS') :
                             ASSIGNMENTS'[i][box] = new]_vars

====
